---- MODULE Spec2Model ----
(***************************************************************************)
(* Model of botutil.Actions (src/botutil/actions.go): a queue of pending   *)
(* api.Action commands, flushed in one batch by Send, with an optional     *)
(* error handler called for every result that is not a success.            *)
(*                                                                         *)
(* Send is not atomic in the code: between the transport call (line 47)    *)
(* and the reset of the queue (line 55) it runs the registered handler,    *)
(* which is a closure of the bot.  The model therefore keeps the Go call   *)
(* stack of the Send invocations in progress, one step per handler call.   *)
(*                                                                         *)
(* A handler either only reports the error (as the closure registered by   *)
(* LogActionErrors does) or calls public operations of the same Actions    *)
(* value (Chat, OnActionError, Send) while the Send that called it is      *)
(* still in progress.                                                      *)
(***************************************************************************)
EXTENDS Integers, Sequences, FiniteSets, TLC

\* ---- bounds of the model ------------------------------------------------
MaxCmds == 2
MaxDepth == 2
MaxNoUnit == 1
MaxHandlerCmds == 2

\* ---- values ---------------------------------------------------------------
Nil == "nil"

\* api.ActionResult: Success and the failure codes
Success == "Success"
ActionResults == {"Success", "Error"}

\* api.ActionChat channels
Broadcast == "Broadcast"
Team == "Team"

Msgs == {"gg"}
Points2D == {[x |-> 3, y |-> 4]}
Abilities == {"Attack"}

\* botutil.Unit: a handle on a unit; the nil handle has tag 0 (GetTag of a nil
\* unit), so Actions.UnitOrder* given the nil handle enqueue a command for tag 0,
\* while Unit.Order* given it enqueue nothing
NilUnit == [tag |-> 0, isNil |-> TRUE]
U1 == [tag |-> 1, isNil |-> FALSE]
U2 == [tag |-> 2, isNil |-> FALSE]
UnitSet == {U1}
TargetUnits == {U2}
\* botutil.Units: a group of units (its raw list)
UnitGroups == {<< >>, <<U2, U1>>}

\* the closures a bot can register with OnActionError:
\*   "log"    the closure of LogActionErrors (only prints)
\*   "hChat"  a closure that calls a.Chat(msg)
\*   "hSend"  a closure that calls a.Send()
\*   "hUnset" a closure that calls a.OnActionError(nil)
\*   "hSendChats" a closure that calls a.Send(), then a.Chat(msg) twice
PassiveHandlers == {"log"}
Handlers == PassiveHandlers \cup {"hChat", "hSend", "hUnset", "hSendChats"}

\* ---- state -----------------------------------------------------------------
VARIABLES
    actions,        \* a.actions: the pending commands
    errorHandler,   \* a.errorHandler: Nil or a handler
    nextId,         \* the next *api.Action to be allocated (pointer identity)
    stack,          \* the Send invocations in progress, innermost last
    panic,          \* Nil, or the run-time panic that ended the program
    sent,           \* history: the SendActions calls (the pointers of the
                    \* batch, the reply, the handler registered at the call)
                    \* since the bot or the client last called a Send that
                    \* reached the transport
    calls,          \* history: the handler invocations of those Sends (the
                    \* pointer and result passed, the Send and index it is for)
    handed,         \* history: handed[id] is how many times command id was
                    \* handed to the transport
    enqueuedSince,  \* history: commands enqueued since the last Send returned
    callsSince,     \* history: enqueue calls made since the last Send returned
    noUnitSince,    \* history: those of them that were given no unit
    flushes,        \* history: the Send calls made with commands enqueued,
                    \* over the same period as sent
    registered,     \* history: the last argument of OnActionError
    replaced,       \* history: that call replaced another handler while
                    \* commands were pending
    mem,            \* the memory of a.actions: heap is the backing arrays
                    \* allocated (an array is its cells, as many as its
                    \* capacity, a cell holds an *api.Action or 0), buf is the
                    \* array of the slice a.actions, 0 for the nil slice; the
                    \* length of the slice is Len(actions)
    last,           \* the operation just performed: it ended a Send (ret), that
                    \* Send had called the transport (sent), it advanced a
                    \* simulation step (adv)
    gameLoop        \* the number of simulation steps the client has advanced,
                    \* modulo 2

vars == <<actions, mem, errorHandler, nextId, stack, panic, sent, calls, handed,
          enqueuedSince, callsSince, noUnitSince, flushes, registered, replaced, last,
          gameLoop>>

\* ---- api.Action values ------------------------------------------------------
NoTarget == [type |-> "none", val |-> Nil]
TargetUnitTag(t) == [type |-> "unit", val |-> t]
TargetWorldSpacePos(p) == [type |-> "pos", val |-> p]

\* api.Point2D.ToPoint: the point with Z = 0
ToPoint(pt) == [x |-> pt.x, y |-> pt.y, z |-> 0]

ActionChat(id, channel, msg) ==
    [id |-> id, kind |-> "ActionChat", channel |-> channel, message |-> msg,
     point |-> Nil, ability |-> Nil, tags |-> << >>, target |-> NoTarget]

ActionCameraMove(id, pt) ==
    [id |-> id, kind |-> "CameraMove", channel |-> Nil, message |-> Nil,
     point |-> ToPoint(pt), ability |-> Nil, tags |-> << >>, target |-> NoTarget]

\* api.ActionRawUnitCommand
UnitCommand(ability, unitTags, target) ==
    [ability |-> ability, tags |-> unitTags, target |-> target]

ActionUnitCommand(id, cmd) ==
    [id |-> id, kind |-> "UnitCommand", channel |-> Nil, message |-> Nil,
     point |-> Nil, ability |-> cmd.ability, tags |-> cmd.tags, target |-> cmd.target]

\* Unit.GetTag, Units.Tags
GetTag(u) == u.tag
Tags(units) == [i \in 1..Len(units) |-> GetTag(units[i])]

\* the *api.Action pointers of a slice of commands
Pointers(q) == [i \in 1..Len(q) |-> q[i].id]

\* ---- the pieces of the code ------------------------------------------------
\* append(a.actions, action)
PushFront(q, c) == <<c>> \o q
PushNothing(q, c) == q
PushAlone(q, c) == <<c>>
Push(q, c) == Append(q, c)

\* len(a.actions) == 0   (Send, line 43)
NeverEmpty(q) == FALSE
QueueIsEmpty(q) == Len(q) = 0

\* a.actions = nil   (Send, line 55)
KeepQueue(q) == q
KeepLast(q) == IF q = << >> THEN q ELSE <<q[Len(q)]>>
Reset(q) == << >>

\* a.actions = nil, for the memory: the slice has no backing array any more
Reslice(b) == b
NilSlice(b) == 0

\* a.errorHandler != nil   (Send, line 48)
AlwaysHandler(h) == TRUE
HasHandler(h) == h # Nil

\* r != api.ActionResult_Success   (Send, line 50)
IsFailure(r) == r # Success

\* len(unitTags) == 0   (unitsOrder, unitsOrderTarget, unitsOrderPos)
NeverNoTags(unitTags) == FALSE
NoTags(unitTags) == Len(unitTags) = 0

\* a.errorHandler = handler   (OnActionError, line 30)
KeepFirstHandler(cur, handler) == IF cur = Nil THEN handler ELSE cur
SetHandler(cur, handler) == handler

\* Go's append of one pointer p to a slice of length n in memory m: written in
\* place when the capacity allows; otherwise a new array is allocated, of
\* capacity 1 for the nil slice and of twice the capacity for the others, and
\* the slice is copied to it
Cells(m) == IF m.buf = 0 THEN << >> ELSE m.heap[m.buf]

Capacity(m) == Len(Cells(m))

GoAppend(m, n, p) ==
    IF n < Capacity(m)
    THEN [m EXCEPT !.heap[m.buf][n + 1] = p]
    ELSE LET cap == IF Capacity(m) = 0 THEN 1 ELSE 2 * Capacity(m)
             new == [i \in 1..cap |-> IF i <= n /\ i <= Capacity(m) THEN Cells(m)[i]
                                      ELSE IF i = n + 1 THEN p ELSE 0]
         IN [heap |-> Append(m.heap, new), buf |-> Len(m.heap) + 1]

\* unitOrder: wraps the unit command and appends it
unitOrder(q, id, cmd) == Push(q, ActionUnitCommand(id, cmd))

unitsOrder(q, id, unitTags, ability) ==
    IF NoTags(unitTags) THEN q
    ELSE unitOrder(q, id, UnitCommand(ability, unitTags, NoTarget))

unitsOrderDropTarget(q, id, unitTags, ability, target) ==
    unitsOrder(q, id, unitTags, ability)
unitsOrderTarget(q, id, unitTags, ability, target) ==
    IF NoTags(unitTags) THEN q
    ELSE unitOrder(q, id, UnitCommand(ability, unitTags, TargetUnitTag(GetTag(target))))

unitsOrderPos(q, id, unitTags, ability, target) ==
    IF NoTags(unitTags) THEN q
    ELSE unitOrder(q, id, UnitCommand(ability, unitTags, TargetWorldSpacePos(target)))

\* the replies of info.SendActions to a batch of n commands: one result per
\* command, or fewer when the reply is cut short
Replies(n) == UNION {[1..k -> ActionResults] : k \in 0..n}

\* the first index >= i of a failure in results, 0 when there is none
\* (for i, r := range results { if r != Success ... })
NextFailure(results, i) ==
    LET F == {j \in i..Len(results) : IsFailure(results[j])}
    IN IF F = {} THEN 0 ELSE CHOOSE j \in F : \A k \in F : j <= k

\* ---- NewActions ---------------------------------------------------------------
Init ==
    /\ actions = << >>
    /\ mem = [heap |-> << >>, buf |-> 0]
    /\ errorHandler = Nil
    /\ nextId = 1
    /\ stack = << >>
    /\ panic = Nil
    /\ sent = << >>
    /\ calls = << >>
    /\ handed = << >>
    /\ enqueuedSince = << >>
    /\ callsSince = 0
    /\ noUnitSince = 0
    /\ flushes = 0
    /\ registered = Nil
    /\ replaced = FALSE
    /\ last = [ret |-> FALSE, sent |-> FALSE, adv |-> FALSE]
    /\ gameLoop = 0

\* the bot's own code runs: no Send in progress, the program has not panicked
Idle == stack = << >> /\ panic = Nil

\* an operation that is neither the return of a Send nor a step
Other == [ret |-> FALSE, sent |-> FALSE, adv |-> FALSE]

\* an enqueue call of the bot that results in queue q2; cmds is what the call
\* was asked to enqueue (empty when it was given no unit)
Enqueue(q2, cmds) ==
    /\ Idle
    /\ nextId <= MaxCmds
    /\ cmds = << >> => noUnitSince < MaxNoUnit
    /\ actions' = q2
    /\ mem' = IF q2 = actions THEN mem ELSE GoAppend(mem, Len(actions), nextId)
    /\ nextId' = IF q2 = actions THEN nextId ELSE nextId + 1
    /\ handed' = IF q2 = actions THEN handed ELSE Append(handed, 0)
    /\ enqueuedSince' = enqueuedSince \o cmds
    /\ callsSince' = callsSince + 1
    /\ noUnitSince' = IF cmds = << >> THEN noUnitSince + 1 ELSE noUnitSince
    /\ last' = Other /\ gameLoop' = gameLoop
    /\ UNCHANGED <<errorHandler, stack, panic, sent, calls, flushes, registered, replaced>>

Chat ==
    \E msg \in Msgs :
        LET c == ActionChat(nextId, Broadcast, msg)
        IN Enqueue(Push(actions, c), <<c>>)

ChatTeam ==
    \E msg \in Msgs :
        LET c == ActionChat(nextId, Team, msg)
        IN Enqueue(Push(actions, c), <<c>>)

MoveCamera ==
    \E pt \in Points2D :
        LET c == ActionCameraMove(nextId, pt)
        IN Enqueue(Push(actions, c), <<c>>)

\* what a unit order on unitTags is to enqueue
Expected(unitTags, ability, target) ==
    IF Len(unitTags) = 0 THEN << >>
    ELSE <<ActionUnitCommand(nextId, UnitCommand(ability, unitTags, target))>>

UnitOrder ==
    \E u \in UnitSet \cup {NilUnit}, ability \in Abilities :
        Enqueue(unitsOrder(actions, nextId, <<GetTag(u)>>, ability),
                Expected(<<GetTag(u)>>, ability, NoTarget))

UnitOrderTarget ==
    \E u \in UnitSet \cup {NilUnit}, ability \in Abilities, target \in TargetUnits :
        Enqueue(unitsOrderTarget(actions, nextId, <<GetTag(u)>>, ability, target),
                Expected(<<GetTag(u)>>, ability, TargetUnitTag(GetTag(target))))

UnitOrderPos ==
    \E u \in UnitSet \cup {NilUnit}, ability \in Abilities, target \in Points2D :
        Enqueue(unitsOrderPos(actions, nextId, <<GetTag(u)>>, ability, target),
                Expected(<<GetTag(u)>>, ability, TargetWorldSpacePos(target)))

UnitsOrder ==
    \E units \in UnitGroups, ability \in Abilities :
        Enqueue(unitsOrder(actions, nextId, Tags(units), ability),
                Expected(Tags(units), ability, NoTarget))

UnitsOrderTarget ==
    \E units \in UnitGroups, ability \in Abilities, target \in TargetUnits :
        Enqueue(unitsOrderTarget(actions, nextId, Tags(units), ability, target),
                Expected(Tags(units), ability, TargetUnitTag(GetTag(target))))

UnitsOrderPos ==
    \E units \in UnitGroups, ability \in Abilities, target \in Points2D :
        Enqueue(unitsOrderPos(actions, nextId, Tags(units), ability, target),
                Expected(Tags(units), ability, TargetWorldSpacePos(target)))

\* Units.Order, Units.OrderTarget, Units.OrderPos
Units_Order ==
    \E units \in UnitGroups, ability \in Abilities :
        Enqueue(IF Len(units) > 0 THEN unitsOrder(actions, nextId, Tags(units), ability)
                ELSE actions,
                Expected(Tags(units), ability, NoTarget))

Units_OrderTarget ==
    \E units \in UnitGroups, ability \in Abilities, target \in TargetUnits :
        Enqueue(IF Len(units) > 0
                THEN unitsOrderTarget(actions, nextId, Tags(units), ability, target)
                ELSE actions,
                Expected(Tags(units), ability, TargetUnitTag(GetTag(target))))

Units_OrderPos ==
    \E units \in UnitGroups, ability \in Abilities, target \in Points2D :
        Enqueue(IF Len(units) > 0
                THEN unitsOrderPos(actions, nextId, Tags(units), ability, target)
                ELSE actions,
                Expected(Tags(units), ability, TargetWorldSpacePos(target)))

\* Unit.Order, Unit.OrderTarget, Unit.OrderPos
Unit_Order ==
    \E u \in UnitSet \cup {NilUnit}, ability \in Abilities :
        Enqueue(IF ~u.isNil THEN unitsOrder(actions, nextId, <<GetTag(u)>>, ability)
                ELSE actions,
                IF u.isNil THEN << >> ELSE Expected(<<GetTag(u)>>, ability, NoTarget))

Unit_OrderTarget ==
    \E u \in UnitSet \cup {NilUnit}, ability \in Abilities, target \in TargetUnits :
        Enqueue(IF ~u.isNil
                THEN unitsOrderTarget(actions, nextId, <<GetTag(u)>>, ability, target)
                ELSE actions,
                IF u.isNil THEN << >>
                ELSE Expected(<<GetTag(u)>>, ability, TargetUnitTag(GetTag(target))))

Unit_OrderPos ==
    \E u \in UnitSet \cup {NilUnit}, ability \in Abilities, target \in Points2D :
        Enqueue(IF ~u.isNil
                THEN unitsOrderPos(actions, nextId, <<GetTag(u)>>, ability, target)
                ELSE actions,
                IF u.isNil THEN << >>
                ELSE Expected(<<GetTag(u)>>, ability, TargetWorldSpacePos(target)))

\* ---- OnActionError, LogActionErrors ------------------------------------------
Register(handler) ==
    /\ Idle
    /\ errorHandler' = SetHandler(errorHandler, handler)
    /\ registered' = handler
    /\ replaced' = (actions # << >> /\ errorHandler # Nil /\ handler # errorHandler)
    /\ last' = Other /\ gameLoop' = gameLoop
    /\ UNCHANGED <<actions, mem, nextId, stack, panic, sent, calls, handed,
                   enqueuedSince, callsSince, noUnitSince, flushes>>

OnActionError == \E handler \in Handlers \cup {Nil} : Register(handler)

LogActionErrors == Register("log")

\* ---- Send ------------------------------------------------------------------------
\* a Send invocation has returned: the history of the current period restarts
Returned ==
    /\ enqueuedSince' = << >>
    /\ callsSince' = 0
    /\ noUnitSince' = 0
    /\ replaced' = FALSE

\* a Send called by caller returns, having called the transport or not; when the
\* caller is the client's step, the simulation step then advances
Ended(called, caller) ==
    /\ last' = [ret |-> TRUE, sent |-> called, adv |-> caller = "step"]
    /\ gameLoop' = IF caller = "step" THEN (gameLoop + 1) % 2 ELSE gameLoop

\* the frame of a Send that is reporting the results of its transport call:
\* i is the next index of results to examine, busy says that the handler it
\* called has not returned yet
Frame(caller, results, flush) ==
    [caller |-> caller, results |-> results, i |-> 1, flush |-> flush,
     busy |-> FALSE]

\* handed, once the commands of batch q have been handed over
HandOver(q) ==
    [id \in DOMAIN handed |->
        handed[id] + Cardinality({i \in DOMAIN q : q[i].id = id})]

\* the memory kept as history when Send reaches the transport on top of the
\* frames below: with the history of sent, the arrays of the earlier batches
\* are forgotten when the bot or the client calls Send
Kept(below) ==
    IF below = << >> /\ mem.buf # 0 THEN [heap |-> <<Cells(mem)>>, buf |-> 1] ELSE mem

\* Send is called by caller ("manual", "step" or "handler") on top of the
\* frames below: lines 43-48, and line 55 when no handler is registered
Begin(caller, below) ==
    IF QueueIsEmpty(actions)
    THEN /\ actions' = actions
         /\ mem' = mem
         /\ sent' = sent
         /\ handed' = handed
         /\ stack' = below
         /\ Returned
         /\ Ended(FALSE, caller)
    ELSE /\ \E results \in Replies(Len(actions)) :
               sent' = Append(IF below = << >> THEN << >> ELSE sent,
                              [batch |-> Pointers(actions), results |-> results,
                               handler |-> errorHandler,
                               enqueued |-> Pointers(enqueuedSince),
                               array |-> Kept(below).buf])
         /\ handed' = HandOver(actions)
         /\ IF HasHandler(errorHandler)
            THEN /\ Len(below) < MaxDepth
                 /\ actions' = actions
                 /\ mem' = Kept(below)
                 /\ stack' = Append(below,
                                    Frame(caller, sent'[Len(sent')].results, Len(sent')))
                 /\ UNCHANGED <<enqueuedSince, callsSince, noUnitSince, replaced>>
                 /\ last' = Other /\ gameLoop' = gameLoop
            ELSE /\ actions' = Reset(actions)
                 /\ mem' = [Kept(below) EXCEPT !.buf = NilSlice(Kept(below).buf)]
                 /\ stack' = below
                 /\ Returned
                 /\ Ended(TRUE, caller)

\* the bot or the client calls Send: the histories of the previous Send restart
\* when this one reaches the transport
BeginTop(caller) ==
    /\ Begin(caller, << >>)
    /\ calls' = IF QueueIsEmpty(actions) THEN calls ELSE << >>
    /\ flushes' = (IF QueueIsEmpty(actions) THEN flushes ELSE 0)
                  + (IF enqueuedSince = << >> THEN 0 ELSE 1)

\* the bot calls Send
Send ==
    /\ Idle
    /\ BeginTop("manual")
    /\ UNCHANGED <<errorHandler, nextId, panic, registered>>

\* the client runs the before-step hook registered by NewActions (Send), then
\* advances the simulation by one step
Step ==
    /\ Idle
    /\ BeginTop("step")
    /\ UNCHANGED <<errorHandler, nextId, panic, registered>>

Top == stack[Len(stack)]
Below == SubSeq(stack, 1, Len(stack) - 1)
Running == stack # << >> /\ panic = Nil /\ ~Top.busy

\* the loop of Send has no failure left to report: line 55, and Send returns
SendReturn ==
    /\ Running
    /\ NextFailure(Top.results, Top.i) = 0
    /\ actions' = Reset(actions)
    /\ mem' = [mem EXCEPT !.buf = NilSlice(mem.buf)]
    /\ stack' = Below
    /\ Returned
    /\ Ended(TRUE, Top.caller)
    /\ UNCHANGED <<errorHandler, nextId, panic, sent, calls, handed, flushes, registered>>

\* line 51 faults: a.actions[i] is out of range, or a.errorHandler is nil
SendPanic ==
    /\ Running
    /\ LET j == NextFailure(Top.results, Top.i)
       IN /\ j > 0
          /\ j > Len(actions) \/ errorHandler = Nil
          /\ panic' = IF j > Len(actions) THEN "index out of range"
                      ELSE "nil func call"
    /\ last' = Other /\ gameLoop' = gameLoop
    /\ UNCHANGED <<actions, mem, errorHandler, nextId, stack, sent, calls, handed,
                   enqueuedSince, callsSince, noUnitSince, flushes, registered, replaced>>

\* line 51: the handler is called with the command and the result at index j
Invocation(j) ==
    [handler |-> errorHandler, action |-> actions[j].id, result |-> Top.results[j],
     flush |-> Top.flush, index |-> j, registered |-> registered, replaced |-> replaced]

\* the loop of Send reaches a failure and calls handler h; Resume is the stack
\* once the handler has returned to the loop
CanReport(h) ==
    /\ Running
    /\ NextFailure(Top.results, Top.i) > 0
    /\ NextFailure(Top.results, Top.i) <= Len(actions)
    /\ errorHandler = h

Resume == Append(Below, [Top EXCEPT !.i = NextFailure(Top.results, Top.i) + 1])

\* a handler that only reports (the closure of LogActionErrors, or the bot's)
ReportPassive ==
    /\ \E h \in PassiveHandlers : CanReport(h)
    /\ calls' = Append(calls, Invocation(NextFailure(Top.results, Top.i)))
    /\ stack' = Resume
    /\ last' = Other /\ gameLoop' = gameLoop
    /\ UNCHANGED <<actions, mem, errorHandler, nextId, panic, sent, handed,
                   enqueuedSince, callsSince, noUnitSince, flushes, registered, replaced>>

\* a handler that calls a.Chat
ReportChat ==
    /\ CanReport("hChat")
    /\ nextId <= MaxCmds
    /\ calls' = Append(calls, Invocation(NextFailure(Top.results, Top.i)))
    /\ \E msg \in Msgs :
          LET c == ActionChat(nextId, Broadcast, msg)
          IN /\ actions' = Push(actions, c)
             /\ enqueuedSince' = Append(enqueuedSince, c)
    /\ mem' = GoAppend(mem, Len(actions), nextId)
    /\ nextId' = nextId + 1
    /\ handed' = Append(handed, 0)
    /\ callsSince' = callsSince + 1
    /\ stack' = Resume
    /\ last' = Other /\ gameLoop' = gameLoop
    /\ UNCHANGED <<errorHandler, panic, sent, noUnitSince, flushes, registered, replaced>>

\* a handler that calls a.OnActionError(nil)
ReportUnset ==
    /\ CanReport("hUnset")
    /\ calls' = Append(calls, Invocation(NextFailure(Top.results, Top.i)))
    /\ errorHandler' = SetHandler(errorHandler, Nil)
    /\ registered' = Nil
    /\ replaced' = (actions # << >>)
    /\ stack' = Resume
    /\ last' = Other /\ gameLoop' = gameLoop
    /\ UNCHANGED <<actions, mem, nextId, panic, sent, handed,
                   enqueuedSince, callsSince, noUnitSince, flushes>>

\* a handler that calls a.Send
ReportSend ==
    /\ CanReport("hSend")
    /\ calls' = Append(calls, Invocation(NextFailure(Top.results, Top.i)))
    /\ Begin("handler", Resume)
    /\ flushes' = IF enqueuedSince = << >> THEN flushes ELSE flushes + 1
    /\ UNCHANGED <<errorHandler, nextId, panic, registered>>

\* a handler that calls a.Send and then a.Chat twice: the Send it calls runs
\* first, the handler goes on when that Send has returned
ReportSendChats ==
    /\ CanReport("hSendChats")
    /\ calls' = Append(calls, Invocation(NextFailure(Top.results, Top.i)))
    /\ Begin("handler", Append(Below, [Resume[Len(stack)] EXCEPT !.busy = TRUE]))
    /\ flushes' = IF enqueuedSince = << >> THEN flushes ELSE flushes + 1
    /\ UNCHANGED <<errorHandler, nextId, panic, registered>>

\* the Send called by the handler has returned: the handler calls a.Chat twice
\* and returns to the loop of the Send that called it
HandlerChats ==
    /\ stack # << >> /\ panic = Nil /\ Top.busy
    /\ nextId + 1 <= MaxCmds + MaxHandlerCmds
    /\ \E msg \in Msgs :
          LET c1 == ActionChat(nextId, Broadcast, msg)
              c2 == ActionChat(nextId + 1, Broadcast, msg)
          IN /\ actions' = Push(Push(actions, c1), c2)
             /\ enqueuedSince' = enqueuedSince \o <<c1, c2>>
    /\ mem' = GoAppend(GoAppend(mem, Len(actions), nextId), Len(actions) + 1, nextId + 1)
    /\ nextId' = nextId + 2
    /\ handed' = handed \o <<0, 0>>
    /\ callsSince' = callsSince + 2
    /\ stack' = Append(Below, [Top EXCEPT !.busy = FALSE])
    /\ last' = Other /\ gameLoop' = gameLoop
    /\ UNCHANGED <<errorHandler, panic, sent, calls, noUnitSince, flushes,
                   registered, replaced>>

Next ==
    \/ Chat \/ ChatTeam \/ MoveCamera
    \/ UnitOrder \/ UnitOrderTarget \/ UnitOrderPos
    \/ UnitsOrder \/ UnitsOrderTarget \/ UnitsOrderPos
    \/ Units_Order \/ Units_OrderTarget \/ Units_OrderPos
    \/ Unit_Order \/ Unit_OrderTarget \/ Unit_OrderPos
    \/ OnActionError \/ LogActionErrors
    \/ Send \/ Step
    \/ SendReturn \/ SendPanic
    \/ ReportPassive \/ ReportChat \/ ReportUnset \/ ReportSend
    \/ ReportSendChats \/ HandlerChats

Spec == Init /\ [][Next]_vars

\* the client keeps advancing simulation steps, and within a Send the transport
\* call and every handler call return: the loop of Send goes on
Fairness ==
    /\ WF_vars(Step)
    /\ WF_vars(SendReturn) /\ WF_vars(SendPanic)
    /\ WF_vars(ReportPassive) /\ WF_vars(ReportChat) /\ WF_vars(ReportUnset)
    /\ WF_vars(ReportSend) /\ WF_vars(ReportSendChats) /\ WF_vars(HandlerChats)

LiveSpec == Spec /\ Fairness

\* a Send is in progress and the bounds of the model stop it: its handler would
\* enqueue a command beyond MaxCmds or MaxHandlerCmds, or call Send beyond
\* MaxDepth
AtBound ==
    /\ stack # << >> /\ panic = Nil
    /\ \/ Top.busy /\ nextId + 1 > MaxCmds + MaxHandlerCmds
       \/ /\ ~Top.busy
          /\ NextFailure(Top.results, Top.i) \in 1..Len(actions)
          /\ \/ errorHandler = "hChat" /\ nextId > MaxCmds
             \/ errorHandler \in {"hSend", "hSendChats"} /\ Len(stack) >= MaxDepth

\* ---- properties ---------------------------------------------------------------
\* the Send whose transport call is sent[k] is still in progress
InProgress(k) == \E n \in DOMAIN stack : stack[n].flush = k

\* the results of sent[k] that its Send has gone past
Examined(k) ==
    IF InProgress(k)
    THEN stack[CHOOSE n \in DOMAIN stack : stack[n].flush = k].i - 1
    ELSE Len(sent[k].results)

\* the indices among the first n results that are not a success
Failed(results, n) == {i \in 1..n : i <= Len(results) /\ results[i] # Success}

\* the handler invocations made by the Send of sent[k], in the order made
CallsOf(k) == SelectSeq(calls, LAMBDA c : c.flush = k)

HasFailure(k) == Failed(sent[k].results, Len(sent[k].results)) # {}

\* C1: whenever a Send has just returned, the pending sequence is empty
C1_EmptyAfterSend == last.ret => actions = << >>

\* a Send with a handler registered and a failure in the reply has returned
C1_Witness ==
    /\ last.ret /\ last.sent
    /\ sent[Len(sent)].handler # Nil
    /\ HasFailure(Len(sent))
    /\ calls # << >>

\* C2: every batch handed to SendActions holds at least one command (a Send on
\* an empty pending sequence makes no transport call)
C2_NoEmptyBatch == \A k \in DOMAIN sent : Len(sent[k].batch) >= 1

\* a Send on an empty pending sequence has returned without a transport call
C2_Witness == last.ret /\ ~last.sent /\ Len(sent) = 1 /\ flushes = 1

\* C3: the pending sequence is the commands enqueued since the last Send
\* returned, in enqueue order; every Send made with commands enqueued makes one
\* transport call, and its batch is exactly those commands in that order
C3_BatchIsEnqueued ==
    /\ actions = enqueuedSince
    /\ \A k \in DOMAIN sent : sent[k].batch = sent[k].enqueued
    /\ Len(sent) = flushes

\* a unit order then a chat have been handed to the transport in that order
C3_Witness ==
    /\ stack # << >>
    /\ Len(actions) = 2
    /\ actions[1].kind = "UnitCommand" /\ actions[2].kind = "ActionChat"
    /\ sent[Top.flush].batch = <<actions[1].id, actions[2].id>>

\* C4 as stated: the pending count is the number of enqueue calls made since
\* the last flush
C4_CountIsCalls == Len(actions) = callsSince

\* C4, amended: the pending count is the number of enqueue calls made since the
\* last flush, not counting the unit orders that were given no unit: a group
\* operation on an empty group, or Unit.Order* on the nil handle.  The
\* single-unit operations of Actions count even for the nil handle
C4_CountIsCallsWithUnits == Len(actions) = callsSince - noUnitSince

\* an Actions.UnitOrder* on the nil handle, a chat and a unit order without
\* units have been made: two commands are pending, the first for tag 0
C4_Witness ==
    /\ callsSince = 3 /\ noUnitSince = 1
    /\ Len(actions) = 2
    /\ actions[1].kind = "UnitCommand" /\ actions[1].tags = <<GetTag(NilUnit)>>
    /\ actions[2].kind = "ActionChat"

\* C5: a unit order given no unit leaves the pending sequence unchanged, and
\* when nothing else was enqueued since the last flush the next Send makes no
\* transport call
C5_NoUnitsNoCommand ==
    [][/\ noUnitSince' = noUnitSince + 1 => actions' = actions
       /\ (noUnitSince > 0 /\ callsSince = noUnitSince) => sent' = sent]_vars

\* a unit order without units was made on a queue holding one command
C5_Witness == noUnitSince = 1 /\ callsSince = 2 /\ Len(actions) = 1

\* C6: for every Send made with a handler registered, the handler invocations
\* it has made are, in ascending order of index, one for each failed result it
\* has gone past, each with the command sent and the result at that index, and
\* none for a success
C6_HandlerPerFailure ==
    \A k \in DOMAIN sent :
        sent[k].handler # Nil =>
            LET C == CallsOf(k)
            IN /\ {C[n].index : n \in DOMAIN C} = Failed(sent[k].results, Examined(k))
               /\ \A n \in DOMAIN C :
                     /\ n > 1 => C[n - 1].index < C[n].index
                     /\ C[n].action = sent[k].batch[C[n].index]
                     /\ C[n].result = sent[k].results[C[n].index]

\* C7: before any handler is registered there is none; a Send that finds no
\* handler registered invokes no callback, is never left in progress or
\* faulted, and has emptied the pending sequence when it returns
C7_NoHandlerSilent ==
    /\ (registered = Nil /\ calls = << >>) => errorHandler = Nil
    /\ \A n \in DOMAIN calls : sent[calls[n].flush].handler # Nil
    /\ \A n \in DOMAIN stack : sent[stack[n].flush].handler # Nil
    /\ (last.ret /\ last.sent /\ sent[Len(sent)].handler = Nil) =>
           (actions = << >> /\ panic = Nil)

\* a Send without a handler has returned after a reply that held a failure
C7_Witness ==
    /\ last.ret /\ last.sent
    /\ sent[Len(sent)].handler = Nil
    /\ HasFailure(Len(sent))
    /\ actions = << >> /\ calls = << >>

\* C8: no command is handed to the transport more than once
C8_SentAtMostOnce == \A id \in DOMAIN handed : handed[id] <= 1

\* C9: every handler invocation is made to the handler given to the most
\* recent OnActionError (or LogActionErrors), never to an earlier one
C9_LatestHandlerOnly == \A n \in DOMAIN calls : calls[n].handler = calls[n].registered

\* a handler was replaced by another while a command was pending, and the
\* failure of that command then went to the new handler
C9_Witness ==
    \E n \in DOMAIN calls :
        /\ calls[n].replaced
        /\ calls[n].handler = "log"
        /\ stack = << >>

\* C10: when a simulation step advances, the pending sequence is empty and
\* every command enqueued so far has been handed to the transport
C10_FlushedBeforeStep ==
    last.adv =>
        /\ actions = << >>
        /\ \A id \in 1..(nextId - 1) : handed[id] >= 1

\* C11: while a Send is in progress no enqueue takes effect on the pending
\* sequence, and every command a Send removes from the pending sequence has
\* been handed to the transport
C11_FlushAtomic ==
    [][/\ stack # << >> => (actions' = actions \/ actions' = << >>)
       /\ actions' = << >> =>
              \A n \in DOMAIN actions : handed'[actions[n].id] >= 1]_vars

\* C12: when the client keeps advancing steps, every command enqueued is
\* eventually handed to the transport (unless the program has panicked, or the
\* bounds of the model have stopped the Send in progress)
C12_EventuallySent ==
    \A id \in 1..(MaxCmds + MaxHandlerCmds) :
        (id \in DOMAIN handed) ~>
            ((id \in DOMAIN handed /\ handed[id] >= 1) \/ panic # Nil \/ AtBound)

\* the operation just performed appended one command to the pending sequence:
\* the unit command that the call was to enqueue, with target variant type
AppendedUnitCommand(type) ==
    /\ Len(enqueuedSince') = Len(enqueuedSince) + 1
    /\ Len(actions') = Len(actions) + 1
    /\ SubSeq(actions', 1, Len(actions)) = actions
    /\ LET c == actions'[Len(actions')]
           e == enqueuedSince'[Len(enqueuedSince')]
       IN /\ c.kind = "UnitCommand"
          /\ Len(c.tags) >= 1
          /\ c.ability = e.ability /\ c.tags = e.tags /\ c.target = e.target
          /\ c.target.type = type
          /\ type = "none" => c.target = NoTarget
          /\ type = "unit" => c.target.val \in {GetTag(u) : u \in TargetUnits}
          /\ type = "pos" => c.target.val \in Points2D

\* C13: a unit order given at least one unit appends exactly one command, which
\* carries the ability, all the unit tags in the order given, and the target
\* variant of the operation used
C13_OneCommandForAllUnits ==
    [][enqueuedSince' # enqueuedSince =>
          /\ (UnitOrder \/ UnitsOrder \/ Units_Order \/ Unit_Order)
                => AppendedUnitCommand("none")
          /\ (UnitOrderTarget \/ UnitsOrderTarget \/ Units_OrderTarget \/ Unit_OrderTarget)
                => AppendedUnitCommand("unit")
          /\ (UnitOrderPos \/ UnitsOrderPos \/ Units_OrderPos \/ Unit_OrderPos)
                => AppendedUnitCommand("pos")]_vars

\* an order to a group of two units at a position and an order to one unit on a
\* target unit are pending, each as one command
C13_Witness ==
    /\ Len(actions) = 2
    /\ actions[1].kind = "UnitCommand" /\ actions[1].tags = <<2, 1>>
    /\ actions[1].target = TargetWorldSpacePos([x |-> 3, y |-> 4])
    /\ actions[2].kind = "UnitCommand" /\ actions[2].tags = <<1>>
    /\ actions[2].target = TargetUnitTag(2)
    /\ actions[1].ability = "Attack" /\ actions[2].ability = "Attack"

\* C14: a Send or a step's Send called right after a Send has returned, with
\* nothing done in between, returns at once: it leaves the pending sequence
\* and the handler as they are and calls neither the transport nor the handler
C14_SecondFlushNoOp ==
    [][(last.ret /\ stack = << >> /\ (Send \/ Step)) =>
          /\ last'.ret /\ ~last'.sent
          /\ actions' = actions /\ errorHandler' = errorHandler
          /\ sent' = sent /\ handed' = handed /\ calls' = calls
          /\ stack' = << >> /\ panic' = Nil]_vars

\* the hook of a step has returned without a transport call, after a Send that
\* called the transport and the handler
C14_Witness ==
    /\ last.ret /\ ~last.sent /\ last.adv
    /\ Len(sent) = 1 /\ HasFailure(1) /\ Len(CallsOf(1)) >= 1
    /\ handed = <<1>>
    /\ actions = << >>

\* C15: a Send called by the bot or by the client makes, from its call to its
\* return and with everything its handler calls do, at most one transport call
\* and at most as many handler invocations as its batch has commands
C15_FlushBounded ==
    sent # << >> =>
        /\ Len(sent) <= 1
        /\ Len(calls) <= Len(sent[1].batch)

\* C16: the handler invocations of a Send come after its transport call, in
\* ascending order of index, and at each of them the pending sequence still
\* starts with the batch that Send has handed to the transport
C16_BatchPendingAtInvocation ==
    [][Len(calls') = Len(calls) + 1 =>
          LET c == calls'[Len(calls')]
              b == sent[c.flush].batch
              C == CallsOf(c.flush)
          IN /\ c.flush \in DOMAIN sent
             /\ C # << >> => C[Len(C)].index < c.index
             /\ Len(actions) >= Len(b)
             /\ SubSeq(Pointers(actions), 1, Len(b)) = b]_vars

\* the operations that enqueue, called by the bot or by a handler
EnqueueOperation ==
    \/ Chat \/ ChatTeam \/ MoveCamera
    \/ UnitOrder \/ UnitOrderTarget \/ UnitOrderPos
    \/ UnitsOrder \/ UnitsOrderTarget \/ UnitsOrderPos
    \/ Units_Order \/ Units_OrderTarget \/ Units_OrderPos
    \/ Unit_Order \/ Unit_OrderTarget \/ Unit_OrderPos
    \/ ReportChat \/ HandlerChats

\* OnActionError, called by the bot or by a handler
RegisterOperation == OnActionError \/ LogActionErrors \/ ReportUnset

\* C17 as stated, for the flush: when a Send called by the bot or the client
\* returns, the registered handler is the one that was registered at its call
C17_FlushKeepsHandler ==
    (last.ret /\ last.sent /\ stack = << >>) => errorHandler = sent[1].handler

\* C17, amended: an enqueue operation leaves the handler unchanged and only
\* appends to the pending sequence; OnActionError leaves the pending sequence
\* unchanged; the handler changes in no step other than a call of
\* OnActionError, so a Send changes it only when its handler calls
\* OnActionError
C17_FramePerOperation ==
    [][/\ EnqueueOperation =>
             /\ errorHandler' = errorHandler
             /\ Len(actions') >= Len(actions)
             /\ SubSeq(actions', 1, Len(actions)) = actions
       /\ RegisterOperation => actions' = actions
       /\ errorHandler' # errorHandler => RegisterOperation]_vars

\* a Send has returned whose handler called OnActionError(nil): the handler is
\* no longer the one registered when the Send was called
C17_Witness ==
    /\ last.ret /\ last.sent /\ stack = << >>
    /\ sent[1].handler = "hUnset" /\ errorHandler = Nil
    /\ Len(calls) = 1 /\ actions = << >>

\* C18: no Send faults on an index out of the range of the pending sequence,
\* and no handler invocation is made for a command for which the transport
\* returned no result
C18_IndexInBounds ==
    /\ panic # "index out of range"
    /\ \A n \in DOMAIN calls :
          calls[n].index <= Len(sent[calls[n].flush].results)

\* C19: the cells of a batch that was handed to the transport still hold the
\* commands of that batch: no later operation of the queue writes to them
C19_SentBatchKept ==
    \A k \in DOMAIN sent :
        LET a == mem.heap[sent[k].array]
        IN /\ Len(a) >= Len(sent[k].batch)
           /\ SubSeq(a, 1, Len(sent[k].batch)) = sent[k].batch

\* a command was enqueued after a Send has returned: it is in a new array, and
\* the array of the batch sent holds that batch
C19_Witness ==
    /\ stack = << >> /\ Len(sent) = 1
    /\ Len(actions) = 1
    /\ mem.buf # sent[1].array
    /\ mem.heap[mem.buf] = <<actions[1].id>>
    /\ mem.heap[sent[1].array] = sent[1].batch
    /\ actions[1].id \notin {sent[1].batch[i] : i \in DOMAIN sent[1].batch}

====
